---- MODULE Spec2Model ----
(***************************************************************************)
(* Model of the forecast engine (src/forecast_engine.py) and of the way    *)
(* the dashboard (src/app.py) feeds it.                                    *)
(*                                                                         *)
(* Representation.                                                         *)
(*   - A calendar month is the integer  year * 12 + (month - 1).           *)
(*   - A date is a record [ym, day].                                       *)
(*   - A raw regressor output is an integer number of tenths, a correction *)
(*     factor an integer number of hundredths, so raw * factor is an       *)
(*     integer number of thousandths.                                      *)
(*   - A data frame is a sequence of records (row order = index order).    *)
(*   - An optional list argument is [given, values]: Python's None is      *)
(*     [given |-> FALSE], a list is [given |-> TRUE] with its values.      *)
(*   - NaN is the missing value of a categorical column.                   *)
(***************************************************************************)
EXTENDS Integers, Sequences, FiniteSets, TLC

\* ------------------------------------------------------------------ bounds
MaxRows    == 2   \* reference rows in the two tables together
MaxHorizon == 2   \* largest n_months
MaxCalls   == 2   \* run_forecast calls in one process

\* ---------------------------------------------------------------- helpers
Max(a, b) == IF a >= b THEN a ELSE b

RECURSIVE Flatten(_)
Flatten(blocks) ==
    IF blocks = <<>> THEN <<>> ELSE Head(blocks) \o Flatten(Tail(blocks))

\* Sequences over S of length at most n.
SeqsUpTo(S, n) == UNION {[1..k -> S] : k \in 0..n}

\* -------------------------------------------------------- value domains
NaN == "nan"

Jan2026 == 2026 * 12

\* Months for which reference rows may exist, and in which a call may start.
DataMonths == (Jan2026 - 1)..Jan2026

Days == {1, 15}

MonthAbbr ==
    <<"Jan", "Feb", "Mar", "Apr", "May", "Jun",
      "Jul", "Aug", "Sep", "Oct", "Nov", "Dec">>

\* Correction factors, in hundredths: the dashboard's default, its bounds'
\* upper end, 1.0, and a negative factor only a direct caller can pass.
Factors == {-50, 96, 100, 130}

DefaultFactor == 96

\* Indices of the feature vectors a reference row may carry.
Feats == {1, 2}

\* The two regressors, as tables from feature vector to raw output (tenths):
\* 10.7 and -2.3 for the high model, 5.0 and 0.0 for the low model.
model_h == <<107, -23>>
model_l == <<50, 0>>

\* The feature columns of a reference row (features.pkl).
features == <<"feat">>

\* Product variants (Model, FuelType, Color) of the reference tables.
Variants ==
    { <<"X", "Petrol", "Red">>, <<"Y", "Diesel", NaN>>, <<"Y", "Petrol", "Red">> }

ModelVals == {v[1] : v \in Variants}
FuelVals  == {v[2] : v \in Variants}
ColorVals == {v[3] : v \in Variants}

RefRow(m, v, f) ==
    [YearMonth |-> m, Model |-> v[1], FuelType |-> v[2], Color |-> v[3], feat |-> f]

None == [given |-> FALSE, values |-> {}]
List(S) == [given |-> TRUE, values |-> S]
Optional(S) == {None} \cup {List(s) : s \in SUBSET S}

OrNone(S) == IF S = {} THEN None ELSE List(S)

\* ------------------------------------------------------------------ state
VARIABLES
    artifacts,        \* contents of the artifact directory (read-only files)
    args,             \* arguments of the run_forecast call
    forecast_months,  \* run_forecast's local forecast_months of the last call
    all_forecasts,    \* run_forecast's local all_forecasts of the last call
    final_df,         \* table returned by the last call
    calls,            \* run_forecast calls made so far
    loads             \* times the artifact files were read by load_artifacts

vars == <<artifacts, args, forecast_months, all_forecasts, final_df, calls, loads>>

\* ------------------------------------------------------ forecast_engine.py
\* load_artifacts: reads the six artifacts from the directory.
load_artifacts(dir) ==
    [model_h |-> model_h, model_l |-> model_l, features |-> features,
     discontinued_models |-> dir.discontinued,
     df_h_ext |-> dir.df_h_ext, df_l_ext |-> dir.df_l_ext]

\* pd.date_range(pd.to_datetime(start), periods=n, freq="MS"): the n month
\* starts on or after start; a start that is not a first of month moves to the
\* next month start.
date_range(start, periods) ==
    LET first == IF start.day = 1 THEN start.ym ELSE start.ym + 1
    IN  [i \in 1..periods |-> first + (i - 1)]

\* month.strftime("%b %Y")
strftime(month) == <<MonthAbbr[(month % 12) + 1], month \div 12>>

\* df[df["YearMonth"] == month]
Slice(df, month) == SelectSeq(df, LAMBDA r : r.YearMonth = month)

\* Variant: a month is skipped as soon as one segment has no rows.
EitherEmpty(fh, fl) == fh = <<>> \/ fl = <<>>

\* fh.empty and fl.empty
BothEmpty(fh, fl) == fh = <<>> /\ fl = <<>>

\* Variant: no clamp of the raw output.
TransformNoClamp(raw, cf) == (raw * cf) \div 1000

\* Variant: floor taken before scaling, the scaled value truncated.
TransformFloorFirst(raw, cf) == ((Max(raw, 0) \div 10) * cf) \div 100

\* Variant: the clamped output divided by the factor instead of multiplied.
TransformDivide(raw, cf) ==
    IF cf = 0 THEN 0
    ELSE IF cf > 0 THEN (Max(raw, 0) * 10) \div cf
    ELSE -((Max(raw, 0) * 10) \div (-cf))

\* np.floor(np.maximum(raw, 0) * correction_factor).astype(int)
Transform(raw, cf) == (Max(raw, 0) * cf) \div 1000

\* model.predict(f[feature_names]): one raw output per row
predict(model, f, feature_names) ==
    [i \in 1..Len(f) |-> model[f[i][feature_names[1]]]]

\* f["Predicted"] = np.floor(np.maximum(model.predict(f[features]), 0)
\*                           * correction_factor).astype(int)
Predict(model, f, feature_names, cf) ==
    LET raw == predict(model, f, feature_names)
    IN  [i \in 1..Len(f) |->
            [YearMonth |-> f[i].YearMonth, Model |-> f[i].Model,
             FuelType |-> f[i].FuelType, Color |-> f[i].Color, feat |-> f[i].feat,
             Predicted |-> Transform(raw[i], cf)]]

\* Variant: the low segment concatenated first.
ConcatLowFirst(fh, fl) == fl \o fh

\* pd.concat([fh, fl], ignore_index=True)
ConcatSegments(fh, fl) == fh \o fl

\* Variant: the mask inverted, the rows outside the set are zeroed.
ApplyDiscontinuedInverted(forecast, discontinued_models) ==
    [i \in 1..Len(forecast) |->
        IF forecast[i].Model \notin discontinued_models
        THEN [forecast[i] EXCEPT !.Predicted = 0]
        ELSE forecast[i]]

\* forecast.loc[forecast["Model"].isin(discontinued_models), "Predicted"] = 0
ApplyDiscontinued(forecast, discontinued_models) ==
    [i \in 1..Len(forecast) |->
        IF forecast[i].Model \in discontinued_models
        THEN [forecast[i] EXCEPT !.Predicted = 0]
        ELSE forecast[i]]

\* Variant: "is not None" instead of truthiness.
IsNotNone(selected) == selected.given

\* truth value of an optional list: None and the empty list are falsy
Truthy(selected) == selected.given /\ selected.values # {}

\* Variant: a missing value never matches.
isin_dropna(v, values) == v # NaN /\ v \in values

\* Series.isin: a missing value matches a missing value in the list
isin(v, values) == v \in values

\* if selected: forecast = forecast[forecast[col].isin(selected)]
FilterBy(forecast, col, selected) ==
    IF Truthy(selected)
    THEN SelectSeq(forecast, LAMBDA r : isin(r[col], selected.values))
    ELSE forecast

\* forecast["ForecastMonth"] = label, then the five output columns
Stamp(forecast, label) ==
    [i \in 1..Len(forecast) |->
        [ForecastMonth |-> label, Model |-> forecast[i].Model,
         FuelType |-> forecast[i].FuelType, Color |-> forecast[i].Color,
         Predicted |-> forecast[i].Predicted]]

\* Body of the month loop for a month that is not skipped.
MonthForecast(art, a, month) ==
    LET fh == Slice(art.df_h_ext, month)
        fl == Slice(art.df_l_ext, month)
        ph == IF fh # <<>> THEN Predict(art.model_h, fh, art.features, a.correction_factor) ELSE fh
        pl == IF fl # <<>> THEN Predict(art.model_l, fl, art.features, a.correction_factor) ELSE fl
        f0 == ApplyDiscontinued(ConcatSegments(ph, pl), art.discontinued_models)
        f1 == FilterBy(f0, "Model", a.selected_models)
        f2 == FilterBy(f1, "FuelType", a.selected_fuels)
        f3 == FilterBy(f2, "Color", a.selected_colors)
    IN  Stamp(f3, strftime(month))

\* run_forecast: the values of its locals when it returns.
run_forecast(dir, a) ==
    LET art == load_artifacts(dir)
        months == date_range(a.start_month, a.n_months)
        loop[i \in 0..a.n_months] ==
            IF i = 0 THEN <<>>
            ELSE IF BothEmpty(Slice(art.df_h_ext, months[i]),
                              Slice(art.df_l_ext, months[i]))
                 THEN loop[i - 1]
                 ELSE Append(loop[i - 1], MonthForecast(art, a, months[i]))
        blocks == loop[a.n_months]
    IN  [forecast_months |-> months,
         all_forecasts |-> blocks,
         final_df |-> IF blocks = <<>> THEN <<>> ELSE Flatten(blocks)]

\* ------------------------------------------------------------------ app.py
\* load_filter_metadata: the distinct non-missing values of each dimension
\* over both reference tables (the options of the three multiselects).
load_filter_metadata(dir) ==
    LET df_all == dir.df_h_ext \o dir.df_l_ext
        unique(col) == {df_all[i][col] : i \in 1..Len(df_all)} \ {NaN}
    IN  [models |-> unique("Model"), fuels |-> unique("FuelType"),
         colors |-> unique("Color")]

\* ------------------------------------------------------------------- Init
Dates == [ym : DataMonths, day : Days]

DiscontinuedSets == {{}, {"X"}}

Tables(rows, discontinued) ==
    {t \in [discontinued : discontinued,
             df_h_ext : SeqsUpTo(rows, MaxRows),
             df_l_ext : SeqsUpTo(rows, MaxRows)] :
        Len(t.df_h_ext) + Len(t.df_l_ext) <= MaxRows}

Args(start, n, cf, sm, sf, sc) ==
    [start_month |-> start, n_months |-> n, correction_factor |-> cf,
     selected_models |-> sm, selected_fuels |-> sf, selected_colors |-> sc]

NoCallYet ==
    /\ forecast_months = <<>>
    /\ all_forecasts = <<>>
    /\ final_df = <<>>
    /\ calls = 0
    /\ loads = 0

\* A direct call with the default (absent) filters, over reference rows of
\* any month, model and feature vector: any date and horizon with the default
\* factor, or any factor from the first data month over the whole horizon.
InitDirect ==
    /\ artifacts \in
         Tables({RefRow(m, v, f) : m \in DataMonths,
                 v \in {<<"X", "Petrol", "Red">>, <<"Y", "Diesel", NaN>>}, f \in Feats},
                {{"X"}})
    /\ args \in
         {Args(s, n, DefaultFactor, None, None, None) :
             s \in Dates, n \in 1..MaxHorizon}
         \cup
         {Args([ym |-> Jan2026 - 1, day |-> 1], MaxHorizon, cf, None, None, None) :
             cf \in Factors}
    /\ NoCallYet

\* A direct call with any filter lists (absent, empty, partial, complete) and
\* the default or a negative factor.
InitFiltered ==
    /\ artifacts \in Tables({RefRow(Jan2026, v, 1) : v \in Variants}, {{"X"}})
    /\ args \in {Args([ym |-> Jan2026, day |-> 1], 1, cf, sm, sf, sc) :
                   cf \in {-50, DefaultFactor},
                   sm \in Optional(ModelVals), sf \in Optional(FuelVals),
                   sc \in Optional(ColorVals)}
    /\ NoCallYet

\* A call made by the dashboard: the date picker gives any day, each
\* multiselect holds a subset of the options of load_filter_metadata and is
\* passed as "selected or None".
InitDashboard ==
    /\ artifacts \in Tables({RefRow(Jan2026, v, 1) : v \in Variants}, DiscontinuedSets)
    /\ LET options == load_filter_metadata(artifacts)
       IN  args \in {Args(s, 1, DefaultFactor, OrNone(sm), OrNone(sf), OrNone(sc)) :
                       s \in Dates,
                       sm \in SUBSET options.models, sf \in SUBSET options.fuels,
                       sc \in SUBSET options.colors}
    /\ NoCallYet

Init == InitDirect \/ InitFiltered \/ InitDashboard

\* ---------------------------------------------------------------- actions
\* One call of run_forecast with the arguments args.
RunForecast ==
    /\ calls < MaxCalls
    /\ LET r == run_forecast(artifacts, args)
       IN  /\ forecast_months' = r.forecast_months
           /\ all_forecasts' = r.all_forecasts
           /\ final_df' = r.final_df
    /\ calls' = calls + 1
    /\ loads' = loads + 1
    /\ UNCHANGED <<artifacts, args>>

Next == RunForecast

Spec == Init /\ [][Next]_vars

\* ------------------------------------------------- vocabulary of the claims
Called == calls > 0

Rows(df) == {df[i] : i \in 1..Len(df)}

\* Raw output of a reference row's own segment regressor (tenths).
Raw(seg, row) == IF seg = "high" THEN model_h[row.feat] ELSE model_l[row.feat]

\* A row's value belongs to a filter list that is provided and non-empty.
Allowed(v, selected) == (selected.given /\ selected.values # {}) => v \in selected.values

Passes(row) ==
    /\ Allowed(row.Model, args.selected_models)
    /\ Allowed(row.FuelType, args.selected_fuels)
    /\ Allowed(row.Color, args.selected_colors)

Tag(seg, df) == [i \in 1..Len(df) |-> [seg |-> seg, row |-> df[i]]]

\* The reference rows of month m that pass the filters: those of the high
\* table in table order, then those of the low table in table order.
MonthSources(m) ==
    SelectSeq(Tag("high", artifacts.df_h_ext) \o Tag("low", artifacts.df_l_ext),
              LAMBDA s : s.row.YearMonth = m /\ Passes(s.row))

\* The reference rows behind the returned table, for the months evaluated.
Sources ==
    Flatten([k \in 1..Len(forecast_months) |-> MonthSources(forecast_months[k])])

HasReference(m) ==
    \E r \in Rows(artifacts.df_h_ext) \cup Rows(artifacts.df_l_ext) : r.YearMonth = m

Label(m) == <<MonthAbbr[(m % 12) + 1], m \div 12>>

Labelled(m) == SelectSeq(final_df, LAMBDA r : r.ForecastMonth = Label(m))

Unfiltered ==
    run_forecast(artifacts,
        [args EXCEPT !.selected_models = None, !.selected_fuels = None,
                     !.selected_colors = None]).final_df

DistinctValues(col) ==
    {r[col] : r \in Rows(artifacts.df_h_ext) \cup Rows(artifacts.df_l_ext)}

Discontinued(row) == row.Model \in artifacts.discontinued

\* ------------------------------------------------------------------ claims
\* C1 (as stated): after any call, every row of the returned table has
\* Predicted >= 0, whatever the correction factor.
C1_NonNegative ==
    Called => \A i \in 1..Len(final_df) : final_df[i].Predicted >= 0

\* C1 (amended): after any call whose correction factor is >= 0, every row of
\* the returned table has Predicted >= 0.
C1_NonNegativeForNonNegativeFactor ==
    (Called /\ args.correction_factor >= 0)
        => \A i \in 1..Len(final_df) : final_df[i].Predicted >= 0

\* A call with a factor >= 0 returned a row whose raw output was negative (the
\* clamp acted) next to or as well as a row with a positive prediction.
C1_Witness ==
    /\ Called
    /\ args.correction_factor > 0
    /\ Len(final_df) = Len(Sources)
    /\ \E i \in 1..Len(Sources) : Raw(Sources[i].seg, Sources[i].row) < 0
    /\ \E i \in 1..Len(final_df) : final_df[i].Predicted > 0

\* C2: after any call, every returned row whose Model is in the discontinued
\* set has Predicted = 0.
C2_DiscontinuedZero ==
    Called => \A i \in 1..Len(final_df) :
                 final_df[i].Model \in artifacts.discontinued
                     => final_df[i].Predicted = 0

\* A filtered call returned a discontinued high row and a discontinued low row
\* whose scaled raw outputs were both positive.
C2_Witness ==
    /\ Called
    /\ args.correction_factor > 0
    /\ Truthy(args.selected_models)
    /\ Len(final_df) = Len(Sources)
    /\ \E i, j \in 1..Len(Sources) :
          /\ Sources[i].seg = "high" /\ Sources[j].seg = "low"
          /\ Discontinued(Sources[i].row) /\ Discontinued(Sources[j].row)
          /\ Raw("high", Sources[i].row) > 0 /\ Raw("low", Sources[j].row) > 0
          /\ final_df[i].Predicted = 0 /\ final_df[j].Predicted = 0

\* C3: after any call, the returned rows are in one-to-one order with the
\* reference rows behind them, and every row whose Model is not discontinued
\* has Predicted = floor(max(raw, 0) * factor), raw being the output of the
\* row's own segment regressor (0 when raw <= 0).
C3_PredictedFormula ==
    Called =>
        LET src == Sources
        IN  /\ Len(final_df) = Len(src)
            /\ \A i \in 1..Len(src) :
                  LET raw == Raw(src[i].seg, src[i].row)
                      cf == args.correction_factor
                  IN  ~Discontinued(src[i].row) =>
                          final_df[i].Predicted =
                              IF raw <= 0 THEN 0 ELSE (raw * cf) \div 1000

\* Factor 0.96: a low row with raw 5.0 is returned with 4, a high row with raw
\* 10.7 with 10, and a high row with raw -2.3 with 0 (two of them in one call).
C3_Witness ==
    /\ Called
    /\ args.correction_factor = 96
    /\ Len(final_df) = Len(Sources)
    /\ \E i, j \in 1..Len(Sources) :
          /\ ~Discontinued(Sources[i].row) /\ ~Discontinued(Sources[j].row)
          /\ Sources[i].seg = "low" /\ Sources[i].row.feat = 1
          /\ final_df[i].Predicted = 4
          /\ Sources[j].seg = "high"
          /\ final_df[j].Predicted = IF Sources[j].row.feat = 1 THEN 10 ELSE 0

\* C4: after any call, the months evaluated are n_months consecutive calendar
\* months of which the first is the calendar month of the start date, and the
\* reference rows of that month that pass the filters are returned, labelled
\* with that month.
C4_StartsAtStartMonth ==
    Called =>
        /\ forecast_months =
              [i \in 1..args.n_months |-> args.start_month.ym + (i - 1)]
        /\ Len(Labelled(args.start_month.ym)) = Len(MonthSources(args.start_month.ym))

\* C5: after any call, a month of the horizon without reference rows in both
\* tables has no row in the result, every other month of the horizon has one
\* row per reference row of that month that passes the filters, one block per
\* month that was not skipped, and the result is the empty table when every
\* month was skipped.
C5_MonthSkip ==
    Called =>
        /\ \A k \in 1..Len(forecast_months) :
              LET m == forecast_months[k]
              IN  /\ ~HasReference(m) => Labelled(m) = <<>>
                  /\ HasReference(m) => Len(Labelled(m)) = Len(MonthSources(m))
        /\ Len(all_forecasts) =
              Cardinality({k \in 1..Len(forecast_months) :
                              HasReference(forecast_months[k])})
        /\ (\A k \in 1..Len(forecast_months) : ~HasReference(forecast_months[k]))
              => final_df = <<>>

\* A call whose horizon holds a month without reference rows and a month with
\* some, and that returned rows.
C5_Witness ==
    /\ Called
    /\ \E k \in 1..Len(forecast_months) : ~HasReference(forecast_months[k])
    /\ \E k \in 1..Len(forecast_months) : HasReference(forecast_months[k])
    /\ final_df # <<>>

C7_MonotonicInFactor ==
    Called =>
        \A c2 \in Factors :
            LET other == run_forecast(artifacts,
                            [args EXCEPT !.correction_factor = c2]).final_df
                c1 == args.correction_factor
                src == Sources
            IN  /\ Len(other) = Len(final_df)
                /\ Len(src) = Len(final_df)
                /\ \A i \in 1..Len(src) :
                      (~Discontinued(src[i].row)
                         /\ Raw(src[i].seg, src[i].row) > 0)
                      => /\ c1 <= c2 => final_df[i].Predicted <= other[i].Predicted
                         /\ c2 <= c1 => other[i].Predicted <= final_df[i].Predicted

\* A call that returned a row with positive raw output, not discontinued, for
\* which a larger factor gives a strictly larger Predicted.
C7_Witness ==
    /\ Called
    /\ Len(Sources) = Len(final_df)
    /\ \E i \in 1..Len(Sources) : \E c2 \in Factors :
          /\ ~Discontinued(Sources[i].row)
          /\ Raw(Sources[i].seg, Sources[i].row) > 0
          /\ args.correction_factor < c2
          /\ final_df[i].Predicted <
               run_forecast(artifacts,
                   [args EXCEPT !.correction_factor = c2]).final_df[i].Predicted

\* C8: after any call, the result is the concatenation of the per-month blocks,
\* the blocks follow the months evaluated in ascending order, and within a
\* month the rows of the high table come first, each segment in table order.
C8_RowOrder ==
    Called =>
        /\ final_df = Flatten(all_forecasts)
        /\ \A k \in 1..(Len(forecast_months) - 1) :
              forecast_months[k] < forecast_months[k + 1]
        /\ LET src == Sources
           IN  /\ Len(final_df) = Len(src)
               /\ \A i \in 1..Len(src) :
                     /\ final_df[i].ForecastMonth = Label(src[i].row.YearMonth)
                     /\ final_df[i].Model = src[i].row.Model
                     /\ final_df[i].FuelType = src[i].row.FuelType
                     /\ final_df[i].Color = src[i].row.Color

\* A call that returned a high row followed by a low row of the same month,
\* of different models.
C8_Witness ==
    /\ Called
    /\ Len(final_df) = Len(Sources)
    /\ \E i \in 1..(Len(Sources) - 1) :
          /\ Sources[i].seg = "high" /\ Sources[i + 1].seg = "low"
          /\ Sources[i].row.YearMonth = Sources[i + 1].row.YearMonth
          /\ Sources[i].row.Model # Sources[i + 1].row.Model
          /\ final_df[i].Model = Sources[i].row.Model

\* C9: the artifact files are read at most once in a process.
C9_LoadedAtMostOnce == loads <= 1

\* C10: after any call, the result is the sub-sequence of the result of the
\* same call without filters made of the rows whose Model, FuelType and Color
\* belong to each filter list that is provided and non-empty, with unchanged
\* Predicted.
C10_FilterIsSubsequence ==
    Called =>
        final_df =
            SelectSeq(Unfiltered,
                LAMBDA r : /\ Allowed(r.Model, args.selected_models)
                           /\ Allowed(r.FuelType, args.selected_fuels)
                           /\ Allowed(r.Color, args.selected_colors))

\* A call with two filters in force and an empty third list, that dropped a
\* row and kept a discontinued row whose Predicted the override set to 0.
C10_Witness ==
    /\ Called
    /\ Truthy(args.selected_models) /\ Truthy(args.selected_fuels)
    /\ args.selected_colors = List({})
    /\ Len(final_df) < Len(Unfiltered)
    /\ \E i \in 1..Len(final_df) :
          /\ final_df[i].Model \in artifacts.discontinued
          /\ final_df[i].Predicted = 0

====
